---- MODULE Spec2Model ----
(***************************************************************************)
(* The SWO trace decoder of swviewer (coresight/trace_protocol.rs):        *)
(* TraceDataDecoder with its feed / pull interface and the byte-at-a-time  *)
(* state machine behind pull.                                              *)
(*                                                                         *)
(* A decoder is the record [incoming, packets, state].  The handlers are   *)
(* operators from a decoder (and a byte) to the decoder after the call.    *)
(* The driver feeds a byte stream (the tape) to a fresh decoder in chunks  *)
(* of its choice and pulls whenever it likes.                              *)
(***************************************************************************)
EXTENDS Integers, Sequences, FiniteSets, TLC

VARIABLES
    tape,       \* the byte stream the driver is going to feed, fixed at start
    pos,        \* how many bytes of the tape have been passed to feed
    incoming,   \* TraceDataDecoder.incoming
    packets,    \* TraceDataDecoder.packets
    state,      \* TraceDataDecoder.state
    op,         \* the last call made: "new", "feed" or "pull"
    ret,        \* what the last pull returned (None before the first pull)
    pulled,     \* every packet pull has returned so far, in order
    chunked     \* whether some feed passed a part of the tape, not all of it

vars == <<tape, pos, incoming, packets, state, op, ret, pulled, chunked>>

-----------------------------------------------------------------------------
(* Bounds of the exploration *)

\* longest tape made of arbitrary bytes of Alphabet
MaxLen == 3
\* largest chunk a feed passes, besides "all the rest"
MaxChunk == 2
\* longest run of 0x00 bytes in a sync tape
MaxZeros == 13
\* longest run of 0x70 bytes in an overflow tape
MaxOverflow == 4
\* longest run of 0x00 bytes before the 0x80 of a run tape
MaxRun == 21
\* most 7-bit groups in a long-form timestamp tape
MaxGroups == 11

-----------------------------------------------------------------------------
(* u8 and usize arithmetic *)

\* width of usize on the (64-bit) build
UsizeBits == 64
\* ts <<= 7
GroupBits == 7

RECURSIVE BitAnd(_, _)
BitAnd(a, b) ==
    IF a = 0 \/ b = 0 THEN 0
    ELSE (a % 2) * (b % 2) + 2 * BitAnd(a \div 2, b \div 2)

RECURSIVE BitOr(_, _)
BitOr(a, b) ==
    IF a = 0 THEN b
    ELSE IF b = 0 THEN a
    ELSE (IF a % 2 = 1 \/ b % 2 = 1 THEN 1 ELSE 0) + 2 * BitOr(a \div 2, b \div 2)

Shr(a, n) == a \div (2 ^ n)

(* A usize does not fit TLC's integers.  It is kept as its base-128 digits,  *)
(* least significant first: NumGroups digits, the last one holding the bits *)
(* that remain below bit UsizeBits.                                         *)
GroupRadix == 2 ^ GroupBits
NumGroups == (UsizeBits + GroupBits - 1) \div GroupBits
TopRadix == 2 ^ (UsizeBits - GroupBits * (NumGroups - 1))

UsizeZero == [i \in 1..NumGroups |-> 0]

\* v << 7, the bits shifted past bit UsizeBits-1 are lost
UsizeShl7(v) ==
    [i \in 1..NumGroups |->
        IF i = 1 THEN 0
        ELSE IF i = NumGroups THEN v[i - 1] % TopRadix
        ELSE v[i - 1]]

\* v | b for a byte b below 128
UsizeOr(v, b) == [v EXCEPT ![1] = BitOr(@, b)]

\* a small natural as usize (u8 as usize, integer literals)
RECURSIVE UsizeDigits(_, _)
UsizeDigits(n, k) ==
    IF k = 0 THEN <<>>
    ELSE <<n % GroupRadix>> \o UsizeDigits(n \div GroupRadix, k - 1)

Usize(n) == UsizeDigits(n, NumGroups)

-----------------------------------------------------------------------------
(* TracePacket *)

Sync == [tag |-> "Sync"]
Overflow == [tag |-> "Overflow"]
TimeStamp(tc, ts) == [tag |-> "TimeStamp", tc |-> tc, ts |-> ts]
ItmData(id, payload) == [tag |-> "ItmData", id |-> id, payload |-> payload]
DwtData(id, payload) == [tag |-> "DwtData", id |-> id, payload |-> payload]
Extension(data) == [tag |-> "Extension", data |-> data]
Reserved(data) == [tag |-> "Reserved", data |-> data]

\* Option::None of pull
None == [tag |-> "None"]

(* DecoderState *)

Header == [tag |-> "Header"]
Syncing(amount) == [tag |-> "Syncing", amount |-> amount]
StItmData(id, payload, size) ==
    [tag |-> "ItmData", id |-> id, payload |-> payload, size |-> size]
StDwtData(id, payload, size) ==
    [tag |-> "DwtData", id |-> id, payload |-> payload, size |-> size]
StExtension(data) == [tag |-> "Extension", data |-> data]
StReserved(data) == [tag |-> "Reserved", data |-> data]
StTimeStamp(tc, ts) == [tag |-> "TimeStamp", tc |-> tc, ts |-> ts]

-----------------------------------------------------------------------------
(* TraceDataDecoder *)

new == [incoming |-> <<>>, packets |-> <<>>, state |-> Header]

emit(self, packet) == [self EXCEPT !.packets = Append(@, packet)]

SetState(self, st) == [self EXCEPT !.state = st]

\* an extract_size that takes the size code 0b11 for 3 bytes
extract_size_three(c) ==
    CASE BitAnd(c, 3) = 1 -> [ok |-> TRUE, size |-> 1]
      [] BitAnd(c, 3) = 2 -> [ok |-> TRUE, size |-> 2]
      [] BitAnd(c, 3) = 3 -> [ok |-> TRUE, size |-> 3]
      [] OTHER -> [ok |-> FALSE]

\* an extract_size that takes the size code 0b00 for 1 byte
extract_size_lenient(c) ==
    CASE BitAnd(c, 3) = 2 -> [ok |-> TRUE, size |-> 2]
      [] BitAnd(c, 3) = 3 -> [ok |-> TRUE, size |-> 4]
      [] OTHER -> [ok |-> TRUE, size |-> 1]

\* Result<usize, String>
extract_size(c) ==
    CASE BitAnd(c, 3) = 1 -> [ok |-> TRUE, size |-> 1]
      [] BitAnd(c, 3) = 2 -> [ok |-> TRUE, size |-> 2]
      [] BitAnd(c, 3) = 3 -> [ok |-> TRUE, size |-> 4]
      [] OTHER -> [ok |-> FALSE]

\* a "match nibble" that takes bit 2 clear for the hardware source
decode_nibble_swapped(self, header) ==
    LET nibble == BitAnd(header, 15) IN
    CASE nibble = 0 ->
            IF BitAnd(header, 128) = 0 THEN
                LET ts == BitAnd(Shr(header, 4), 7)
                    tc == 0
                IN  IF ts = 0 THEN SetState(self, Header)
                    ELSE SetState(emit(self, TimeStamp(tc, Usize(ts))), Header)
            ELSE IF BitAnd(header, 192) = 192 THEN
                LET tc == BitAnd(Shr(header, 4), 3)
                IN  SetState(self, StTimeStamp(tc, <<>>))
            ELSE SetState(self, Header)
      [] nibble = 4 -> SetState(self, StReserved(<<header>>))
      [] nibble = 8 -> SetState(self, StExtension(<<header>>))
      [] OTHER ->
            LET x == nibble
                r == extract_size(x)
            IN  IF ~r.ok THEN SetState(self, Header)
                ELSE
                    LET id == Shr(header, 3) IN
                    IF BitAnd(x, 4) = 0
                    THEN SetState(self, StDwtData(id, <<>>, r.size))
                    ELSE SetState(self, StItmData(id, <<>>, r.size))

\* a "match nibble" that ends an Extension or Reserved packet at a header
\* with bit 7 clear
decode_nibble_header_bit(self, header) ==
    LET nibble == BitAnd(header, 15) IN
    CASE nibble = 0 ->
            IF BitAnd(header, 128) = 0 THEN
                LET ts == BitAnd(Shr(header, 4), 7)
                    tc == 0
                IN  IF ts = 0 THEN SetState(self, Header)
                    ELSE SetState(emit(self, TimeStamp(tc, Usize(ts))), Header)
            ELSE IF BitAnd(header, 192) = 192 THEN
                LET tc == BitAnd(Shr(header, 4), 3)
                IN  SetState(self, StTimeStamp(tc, <<>>))
            ELSE SetState(self, Header)
      [] nibble = 4 ->
            IF BitAnd(header, 128) = 0
            THEN SetState(emit(self, Reserved(<<header>>)), Header)
            ELSE SetState(self, StReserved(<<header>>))
      [] nibble = 8 ->
            IF BitAnd(header, 128) = 0
            THEN SetState(emit(self, Extension(<<header>>)), Header)
            ELSE SetState(self, StExtension(<<header>>))
      [] OTHER ->
            LET x == nibble
                r == extract_size(x)
            IN  IF ~r.ok THEN SetState(self, Header)
                ELSE
                    LET id == Shr(header, 3) IN
                    IF BitAnd(x, 4) = 4
                    THEN SetState(self, StDwtData(id, <<>>, r.size))
                    ELSE SetState(self, StItmData(id, <<>>, r.size))

\* the arms of "match nibble" in decode_first_byte
decode_nibble(self, header) ==
    LET nibble == BitAnd(header, 15) IN
    CASE nibble = 0 ->
            IF BitAnd(header, 128) = 0 THEN
                LET ts == BitAnd(Shr(header, 4), 7)
                    tc == 0
                IN  IF ts = 0 THEN SetState(self, Header)
                    ELSE SetState(emit(self, TimeStamp(tc, Usize(ts))), Header)
            ELSE IF BitAnd(header, 192) = 192 THEN
                LET tc == BitAnd(Shr(header, 4), 3)
                IN  SetState(self, StTimeStamp(tc, <<>>))
            ELSE SetState(self, Header)
      [] nibble = 4 -> SetState(self, StReserved(<<header>>))
      [] nibble = 8 -> SetState(self, StExtension(<<header>>))
      [] OTHER ->
            LET x == nibble
                r == extract_size(x)
            IN  IF ~r.ok THEN SetState(self, Header)
                ELSE
                    LET id == Shr(header, 3) IN
                    IF BitAnd(x, 4) = 4
                    THEN SetState(self, StDwtData(id, <<>>, r.size))
                    ELSE SetState(self, StItmData(id, <<>>, r.size))

\* a decoder whose header dispatch lacks the 0x00 test
decode_first_byte_no_sync(self, header) ==
    IF header = 112 THEN emit(self, Overflow)
    ELSE decode_nibble(self, header)

\* a decoder whose header dispatch lacks the 0x70 test
decode_first_byte_no_overflow(self, header) ==
    IF header = 0 THEN SetState(self, Syncing(1))
    ELSE decode_nibble(self, header)

decode_first_byte(self, header) ==
    IF header = 112 THEN emit(self, Overflow)
    ELSE IF header = 0 THEN SetState(self, Syncing(1))
    ELSE decode_nibble(self, header)

\* a handle_sync_byte that gives up one zero later
handle_sync_byte_late_reset(self, b, amount) ==
    CASE b = 0 ->
            IF amount > 7 THEN SetState(self, Header)
            ELSE SetState(self, Syncing(amount + 1))
      [] b = 128 ->
            IF amount = 5 THEN SetState(emit(self, Sync), Header)
            ELSE SetState(self, Header)
      [] OTHER -> SetState(self, Header)

\* a handle_sync_byte that does not count the zeros before 0x80
handle_sync_byte_any_count(self, b, amount) ==
    CASE b = 0 ->
            IF amount > 6 THEN SetState(self, Header)
            ELSE SetState(self, Syncing(amount + 1))
      [] b = 128 -> SetState(emit(self, Sync), Header)
      [] OTHER -> SetState(self, Header)

\* a handle_sync_byte that keeps syncing over an unexpected byte
handle_sync_byte_no_reset(self, b, amount) ==
    CASE b = 0 ->
            IF amount > 6 THEN SetState(self, Header)
            ELSE SetState(self, Syncing(amount + 1))
      [] b = 128 ->
            IF amount = 5 THEN SetState(emit(self, Sync), Header)
            ELSE SetState(self, Header)
      [] OTHER -> self

handle_sync_byte(self, b, amount) ==
    CASE b = 0 ->
            IF amount > 6 THEN SetState(self, Header)
            ELSE SetState(self, Syncing(amount + 1))
      [] b = 128 ->
            IF amount = 5 THEN SetState(emit(self, Sync), Header)
            ELSE SetState(self, Header)
      [] OTHER -> SetState(self, Header)

Reverse(s) == [i \in 1..Len(s) |-> s[Len(s) + 1 - i]]

\* the loop with its two statements swapped: ts |= ts_byte; ts <<= 7
RECURSIVE ts_loop_or_first(_, _)
ts_loop_or_first(ts, ts_bytes) ==
    IF ts_bytes = <<>> THEN ts
    ELSE ts_loop_or_first(UsizeShl7(UsizeOr(ts, Head(ts_bytes))), Tail(ts_bytes))

\* for ts_byte in ts_bytes { ts <<= 7; ts |= ts_byte as usize; }
RECURSIVE ts_loop(_, _)
ts_loop(ts, ts_bytes) ==
    IF ts_bytes = <<>> THEN ts
    ELSE ts_loop(UsizeOr(UsizeShl7(ts), Head(ts_bytes)), Tail(ts_bytes))

\* a handle_timestamp that keeps the continuation bit in the group
handle_timestamp_no_mask(self, b, tc, ts_bytes0) ==
    LET continuation == BitAnd(b, 128) > 0
        ts_bytes == Append(ts_bytes0, b)
    IN  IF continuation THEN SetState(self, StTimeStamp(tc, ts_bytes))
        ELSE
            LET ts == ts_loop(UsizeZero, Reverse(ts_bytes))
            IN  SetState(emit(self, TimeStamp(tc, ts)), Header)

\* a handle_timestamp without ts_bytes.reverse()
handle_timestamp_no_reverse(self, b, tc, ts_bytes0) ==
    LET continuation == BitAnd(b, 128) > 0
        ts_bytes == Append(ts_bytes0, BitAnd(b, 127))
    IN  IF continuation THEN SetState(self, StTimeStamp(tc, ts_bytes))
        ELSE
            LET ts == ts_loop(UsizeZero, ts_bytes)
            IN  SetState(emit(self, TimeStamp(tc, ts)), Header)

handle_timestamp(self, b, tc, ts_bytes0) ==
    LET continuation == BitAnd(b, 128) > 0
        ts_bytes == Append(ts_bytes0, BitAnd(b, 127))
    IN  IF continuation THEN SetState(self, StTimeStamp(tc, ts_bytes))
        ELSE
            LET ts == ts_loop(UsizeZero, Reverse(ts_bytes))
            IN  SetState(emit(self, TimeStamp(tc, ts)), Header)

\* a handle_itm that emits the packet and stays in ItmData
handle_itm_no_return(self, id, payload, size) ==
    IF Len(payload) = size
    THEN SetState(emit(self, ItmData(id, payload)), StItmData(id, payload, size))
    ELSE SetState(self, StItmData(id, payload, size))

handle_itm(self, id, payload, size) ==
    IF Len(payload) = size
    THEN SetState(emit(self, ItmData(id, payload)), Header)
    ELSE SetState(self, StItmData(id, payload, size))

\* a handle_dwt that compares with <= instead of ==
handle_dwt_eager(self, id, payload, size) ==
    IF Len(payload) <= size
    THEN SetState(emit(self, DwtData(id, payload)), Header)
    ELSE SetState(self, StDwtData(id, payload, size))

handle_dwt(self, id, payload, size) ==
    IF Len(payload) = size
    THEN SetState(emit(self, DwtData(id, payload)), Header)
    ELSE SetState(self, StDwtData(id, payload, size))

\* a handle_extension whose cap test is <= 5 instead of < 5
handle_extension_cap6(self, data0, b) ==
    LET is_continuation == BitAnd(b, 128) > 0
        data == Append(data0, b)
    IN  IF is_continuation /\ Len(data) <= 5
        THEN SetState(self, StExtension(data))
        ELSE SetState(emit(self, Extension(data)), Header)

handle_extension(self, data0, b) ==
    LET is_continuation == BitAnd(b, 128) > 0
        data == Append(data0, b)
    IN  IF is_continuation /\ Len(data) < 5
        THEN SetState(self, StExtension(data))
        ELSE SetState(emit(self, Extension(data)), Header)

handle_reserved(self, data0, b) ==
    LET is_continuation == BitAnd(b, 128) > 0
        data == Append(data0, b)
    IN  IF is_continuation /\ Len(data) < 5
        THEN SetState(self, StReserved(data))
        ELSE SetState(emit(self, Reserved(data)), Header)

process_byte(self, b) ==
    LET st == self.state IN
    CASE st.tag = "Header" -> decode_first_byte(self, b)
      [] st.tag = "Syncing" -> handle_sync_byte(self, b, st.amount)
      [] st.tag = "ItmData" ->
            handle_itm(self, st.id, Append(st.payload, b), st.size)
      [] st.tag = "DwtData" ->
            handle_dwt(self, st.id, Append(st.payload, b), st.size)
      [] st.tag = "Extension" -> handle_extension(self, st.data, b)
      [] st.tag = "Reserved" -> handle_reserved(self, st.data, b)
      [] st.tag = "TimeStamp" -> handle_timestamp(self, b, st.tc, st.ts)

\* Option<u8> and the decoder with the byte removed
next_byte(self) ==
    IF self.incoming = <<>> THEN [some |-> FALSE, self |-> self]
    ELSE [some |-> TRUE, b |-> Head(self.incoming),
          self |-> [self EXCEPT !.incoming = Tail(@)]]

RECURSIVE process_incoming(_)
process_incoming(self) ==
    LET n == next_byte(self) IN
    IF n.some THEN process_incoming(process_byte(n.self, n.b))
    ELSE n.self

\* a feed that pushes the chunk in front of the pending bytes
feed_front(self, data) == [self EXCEPT !.incoming = data \o @]

\* a feed that decodes at once
feed_eager(self, data) ==
    process_incoming([self EXCEPT !.incoming = @ \o data])

feed(self, data) == [self EXCEPT !.incoming = @ \o data]

\* a pull that takes the newest packet: pop_back
pull_lifo(self) ==
    LET s == process_incoming(self) IN
    IF s.packets = <<>> THEN [ret |-> None, self |-> s]
    ELSE [ret |-> s.packets[Len(s.packets)],
          self |-> [s EXCEPT !.packets = SubSeq(@, 1, Len(@) - 1)]]

\* a pull that drops the partial packet when it has nothing to return
pull_reset(self) ==
    LET s == process_incoming(self) IN
    IF s.packets = <<>> THEN [ret |-> None, self |-> SetState(s, Header)]
    ELSE [ret |-> Head(s.packets), self |-> [s EXCEPT !.packets = Tail(@)]]

\* Option<TracePacket> and the decoder after the call
pull(self) ==
    LET s == process_incoming(self) IN
    IF s.packets = <<>> THEN [ret |-> None, self |-> s]
    ELSE [ret |-> Head(s.packets), self |-> [s EXCEPT !.packets = Tail(@)]]

-----------------------------------------------------------------------------
(* The byte streams fed *)

\* every value of a u8
Bytes == 0..255

RECURSIVE Rep(_, _)
Rep(b, n) == IF n = 0 THEN <<>> ELSE <<b>> \o Rep(b, n - 1)

\* one byte of each kind the header dispatch tells apart
Alphabet == {0, 128, 112, 16, 192, 1, 6, 136, 4, 12}

RECURSIVE SeqsUpTo(_, _)
SeqsUpTo(S, n) ==
    IF n = 0 THEN {<<>>}
    ELSE LET shorter == SeqsUpTo(S, n - 1)
         IN  shorter \cup {Append(s, b) : s \in {t \in shorter : Len(t) = n - 1}, b \in S}

GenTapes == SeqsUpTo(Alphabet, MaxLen)

\* the stream of the spec's literal scenario
LiteralTape == <<3, 65, 0, 0, 0, 192, 204, 244, 109>>

Capture1 ==
    <<3, 65, 0, 0, 0, 192, 204, 244, 109, 3, 66, 0, 0, 0, 192, 29, 3, 67, 0, 0, 0, 112, 71,
      86, 0, 0, 8, 112, 143, 226, 239, 127, 91, 240, 196, 8>>

Capture2 ==
    <<71, 68, 0, 0, 8, 135, 215, 2, 0, 0, 192, 161, 245, 109, 71, 72, 0, 0, 8, 112, 71, 96,
      0, 0, 8, 112, 143, 216, 2, 0, 0, 240, 197>>

\* a Reserved header (0xD4) and a long-form timestamp header (0xD0), each
\* followed by 0x81, 0x02
ReservedD4Tape == <<212, 129, 2>>
TimeStampD0Tape == <<208, 129, 2>>

\* a run of n 0x00 bytes, the byte t ending it, then the bytes e
SyncTape(n, t, e) == Rep(0, n) \o <<t>> \o e

\* bytes ending a run of zeros: the sync terminator, an ITM header, Overflow
SyncEnders == {128, 153, 112}

\* ItmData encodings, header first: sizes 1, 2 and 4
ItmEncodings == {<<1, 65>>, <<154, 0, 128>>, <<3, 0, 128, 112, 0>>}

\* the sync tapes, each with the run length, the ending byte and the ItmData
\* encoding it is made of
SyncCases ==
    {[n |-> n, t |-> t, e |-> e, bytes |-> SyncTape(n, t, e)] :
        n \in 1..MaxZeros, t \in SyncEnders, e \in ItmEncodings}

SyncTapes == {c.bytes : c \in SyncCases}

OverflowTapes == {Rep(112, n) : n \in 1..MaxOverflow}

\* one complete packet each, with the packet it encodes
PacketEncodings ==
    { [bytes |-> <<3, 65, 0, 0, 0>>, pkt |-> ItmData(0, <<65, 0, 0, 0>>)],
      [bytes |-> <<6, 128, 0>>, pkt |-> DwtData(0, <<128, 0>>)],
      [bytes |-> <<143, 226, 239, 127, 91>>,
       pkt |-> DwtData(17, <<226, 239, 127, 91>>)],
      [bytes |-> <<192, 204, 244, 109>>, pkt |-> TimeStamp(0, Usize(1800780))],
      [bytes |-> <<8, 128, 129, 2>>, pkt |-> Extension(<<8, 128, 129, 2>>)],
      [bytes |-> <<132, 128, 129, 130, 131>>,
       pkt |-> Reserved(<<132, 128, 129, 130, 131>>)],
      [bytes |-> <<0, 0, 0, 0, 0, 128>>, pkt |-> Sync] }

PacketTapes == {e.bytes : e \in PacketEncodings}

\* ItmData of 4 bytes, DwtData of 2, a Reserved packet that runs into the cap
\* of 5 bytes, an Extension packet ended by its second byte
MixedTape == <<3, 65, 0, 0, 0, 6, 128, 0, 132, 128, 129, 130, 131, 8, 2>>

\* a run of n 0x00 bytes and the sync terminator 0x80
RunTapes == {Rep(0, n) \o <<128>> : n \in 1..MaxRun}

\* the long-form timestamp headers: (b & 0xCF) = 0xC0
TsHeaders == {192, 208, 224, 240}

\* sequences of 1..MaxGroups 7-bit groups, the first to arrive first
TsGroupSeqs ==
    UNION {{[i \in 1..k |-> 127], [i \in 1..k |-> 1], [i \in 1..k |-> i],
            [i \in 1..k |-> (37 * i) % 128],
            [i \in 1..k |-> IF i = 1 THEN 5 ELSE 0]} : k \in 1..MaxGroups}

\* header h, then the groups: bit 7 set on every byte but the last
TsEncode(h, g) ==
    <<h>> \o [i \in 1..Len(g) |-> IF i < Len(g) THEN g[i] + 128 ELSE g[i]]

\* the timestamp tapes, each with its header and its groups
TsCases ==
    {[h |-> h, g |-> g, bytes |-> TsEncode(h, g)] : h \in TsHeaders, g \in TsGroupSeqs}

TsTapes == {c.bytes : c \in TsCases}

\* every Extension and Reserved header: low nibble 0x8 or 0x4
ExtHeaders == {b \in Bytes : b % 16 \in {4, 8}}

\* what follows an Extension or Reserved header: the packet ended by its
\* 1st..4th byte after the header, or by the cap of 5 bytes
ExtTails ==
    {<<2, 112>>, <<128, 2, 112>>, <<128, 129, 2, 112>>, <<128, 129, 130, 2, 112>>,
     <<128, 129, 130, 131, 112>>, <<255, 255, 255, 255, 255, 112>>}

ExtTapes == {<<b>> \o t : b \in ExtHeaders, t \in ExtTails}

\* the tapes made for a purpose
FamilyTapes ==
    {LiteralTape, Capture1, Capture2}
        \cup {ReservedD4Tape, TimeStampD0Tape, MixedTape}
        \cup SyncTapes \cup OverflowTapes \cup PacketTapes
        \cup RunTapes \cup TsTapes \cup ExtTapes

Tapes == GenTapes \cup FamilyTapes

\* what follows the header byte of a header tape
ByteTails ==
    {<<0, 128, 112, 0, 112>>, <<255, 3, 193, 8, 112>>, <<129, 2, 130, 131, 112>>}

\* every byte as header, then a tail
HeaderTapes == {<<b>> \o t : b \in Bytes, t \in ByteTails}

\* byte streams that leave a fresh decoder in each kind of decode state
StatePrefixes ==
    {Rep(0, n) : n \in 0..7}
        \cup {<<1>>, <<2, 9>>, <<3>>, <<3, 1, 2, 3>>}
        \cup {<<7>>, <<6, 1>>, <<7, 1, 2, 3>>}
        \cup {<<8>>, <<136, 128>>, <<8, 128, 129, 130>>}
        \cup {<<4>>, <<132, 128, 129>>, <<4, 128, 129, 130>>}
        \cup {<<192>>, <<240, 129>>, <<208, 129, 130>>}

\* every byte in each kind of decode state
LastByteTapes == {p \o <<b>> : p \in StatePrefixes, b \in Bytes}

ByteTapes == HeaderTapes \cup LastByteTapes

-----------------------------------------------------------------------------
(* The driver *)

Self == [incoming |-> incoming, packets |-> packets, state |-> state]

Init ==
    /\ tape \in Tapes
    /\ pos = 0
    /\ incoming = new.incoming
    /\ packets = new.packets
    /\ state = new.state
    /\ op = "new"
    /\ ret = None
    /\ pulled = <<>>
    /\ chunked = FALSE

\* decoder.feed(the next n bytes of the tape)
Feed(n) ==
    /\ pos + n <= Len(tape)
    /\ \E s \in {feed(Self, SubSeq(tape, pos + 1, pos + n))} :
        /\ incoming' = s.incoming
        /\ packets' = s.packets
        /\ state' = s.state
    /\ pos' = pos + n
    /\ op' = "feed"
    /\ chunked' = (chunked \/ (0 < n /\ n < Len(tape)))
    /\ UNCHANGED <<tape, ret, pulled>>

\* decoder.pull()
Pull ==
    /\ \E r \in {pull(Self)} :
        /\ incoming' = r.self.incoming
        /\ packets' = r.self.packets
        /\ state' = r.self.state
        /\ ret' = r.ret
        /\ pulled' = IF r.ret = None THEN pulled ELSE Append(pulled, r.ret)
    /\ op' = "pull"
    /\ UNCHANGED <<tape, pos, chunked>>

Next ==
    \/ \E n \in (0..MaxChunk) \cup {Len(tape) - pos} : Feed(n)
    \/ Pull

Spec == Init /\ [][Next]_vars

\* the same driver on the tapes that try every byte value
ByteInit ==
    /\ tape \in ByteTapes \cup FamilyTapes
    /\ pos = 0
    /\ incoming = new.incoming
    /\ packets = new.packets
    /\ state = new.state
    /\ op = "new"
    /\ ret = None
    /\ pulled = <<>>
    /\ chunked = FALSE

ByteSpec == ByteInit /\ [][Next]_vars

-----------------------------------------------------------------------------
(* What the driver has seen *)

\* the bytes passed to feed so far
Fed == SubSeq(tape, 1, pos)

\* the bytes the state machine has consumed so far
Consumed == SubSeq(tape, 1, pos - Len(incoming))

\* every packet completed so far, returned or still queued
Emitted == pulled \o packets

AllFed == pos = Len(tape)

\* the last call was a pull that found nothing to return
PulledNone == op = "pull" /\ ret = None

IsPrefix(a, b) == Len(a) <= Len(b) /\ SubSeq(b, 1, Len(a)) = a

\* the packets of "loop pulling until no packet is returned"
RECURSIVE PullUntilNone(_)
PullUntilNone(self) ==
    LET r == pull(self) IN
    IF r.ret = None THEN <<>> ELSE <<r.ret>> \o PullUntilNone(r.self)

\* the whole of bytes in one feed call on a fresh decoder, then pulls until none
OneFeed(bytes) == PullUntilNone(feed(new, bytes))

-----------------------------------------------------------------------------
(* C1: chunking-invariance.  However the bytes fed so far were cut into     *)
(* feed calls, and whatever pulls were made between them, the packets       *)
(* returned so far followed by those of pulling on until none are the       *)
(* packets of feeding the same bytes to a fresh decoder in one call and     *)
(* pulling until none.  Once the whole tape is fed and pull has returned    *)
(* none, the packets returned are those of the one-call run of the tape.    *)
C1_ChunkingInvariance ==
    /\ pulled \o PullUntilNone(Self) = OneFeed(Fed)
    /\ (AllFed /\ PulledNone) => pulled = OneFeed(tape)

\* the first capture fed in several chunks, all ten packets returned and
\* then none
C1_Witness ==
    /\ tape = Capture1
    /\ AllFed /\ PulledNone
    /\ chunked
    /\ Len(pulled) = 10

-----------------------------------------------------------------------------
\* the packets the tests and the spec expect of the three captures
Expected(t) ==
    CASE t = LiteralTape ->
            <<ItmData(0, <<65, 0, 0, 0>>), TimeStamp(0, Usize(1800780))>>
      [] t = Capture1 ->
            <<ItmData(0, <<65, 0, 0, 0>>), TimeStamp(0, Usize(1800780)),
              ItmData(0, <<66, 0, 0, 0>>), TimeStamp(0, Usize(29)),
              ItmData(0, <<67, 0, 0, 0>>), Overflow,
              DwtData(8, <<86, 0, 0, 8>>), Overflow,
              DwtData(17, <<226, 239, 127, 91>>), TimeStamp(3, Usize(1092))>>
      [] t = Capture2 ->
            <<DwtData(8, <<68, 0, 0, 8>>), DwtData(16, <<215, 2, 0, 0>>),
              TimeStamp(0, Usize(1800865)), DwtData(8, <<72, 0, 0, 8>>),
              Overflow, DwtData(8, <<96, 0, 0, 8>>), Overflow,
              DwtData(17, <<216, 2, 0, 0>>)>>

(* C2: the literal scenario and the two capture tests.  The packets         *)
(* returned by successive pulls are, one per pull and in wire order, the    *)
(* packets of the complete encodings of the stream: ItmData{0,[65,0,0,0]}   *)
(* then TimeStamp{0,1800780} for the literal bytes; once the stream is      *)
(* consumed every one of them is completed, and the pull after the last     *)
(* returns none.                                                            *)
C2_Captures ==
    \A t \in {LiteralTape, Capture1, Capture2} :
        tape = t =>
            /\ IsPrefix(pulled, Expected(t))
            /\ (op = "pull" /\ ret # None) => ret = Expected(t)[Len(pulled)]
            /\ (AllFed /\ incoming = <<>>) => Emitted = Expected(t)
            /\ (AllFed /\ PulledNone) => pulled = Expected(t)

\* the literal bytes fed, both packets returned, then none
C2_Witness ==
    /\ tape = LiteralTape
    /\ AllFed /\ PulledNone
    /\ pulled = <<ItmData(0, <<65, 0, 0, 0>>), TimeStamp(0, Usize(1800780))>>

-----------------------------------------------------------------------------
\* C3 as the spec states it: 0xD4, 0x81, 0x02 fed to a fresh decoder make
\* pull return the long-form TimeStamp with counter_delay 1 and timestamp 257
C3_AsStated ==
    (tape = ReservedD4Tape /\ AllFed /\ op = "pull") =>
        /\ pulled # <<>>
        /\ pulled[1] = TimeStamp(1, Usize(257))

(* C3: 0xD4 has low nibble 4, a Reserved header: 0xD4, 0x81, 0x02 make pull *)
(* return Reserved{data: [0xD4, 0x81, 0x02]}.  The long-form timestamp      *)
(* header with counter_delay 1 is 0xD0: 0xD0, 0x81, 0x02 make pull return   *)
(* TimeStamp{counter_delay: 1, timestamp: (0x02 << 7) | 0x01 = 257}.        *)
C3_TimeStampD0 ==
    /\ (tape = ReservedD4Tape /\ AllFed /\ op = "pull") =>
            pulled = <<Reserved(<<212, 129, 2>>)>>
    /\ (tape = TimeStampD0Tape /\ AllFed /\ op = "pull") =>
            pulled = <<TimeStamp(1, Usize(257))>>

\* 0xD0, 0x81, 0x02 fed and the timestamp returned by pull
C3_Witness ==
    /\ tape = TimeStampD0Tape
    /\ AllFed /\ op = "pull"
    /\ ret = TimeStamp(1, Usize(257))

-----------------------------------------------------------------------------
\* the ItmData packet of an encoding: id = header >> 3, payload = the rest
ItmPacketOf(e) == ItmData(Head(e) \div 8, Tail(e))

-----------------------------------------------------------------------------
\* the payload length a size code stands for
SizeOfCode(c) == CASE c = 1 -> 1 [] c = 2 -> 2 [] c = 3 -> 4 [] OTHER -> -1

\* the header byte of each packet emitted while bytes are consumed: the byte
\* that was consumed in the Header state before the packet was completed
RECURSIVE HeaderBytes(_, _, _)
HeaderBytes(self, h, bytes) ==
    IF bytes = <<>> THEN <<>>
    ELSE LET b == Head(bytes)
             hb == IF self.state = Header THEN b ELSE h
             after == process_byte(self, b)
         IN  (IF Len(after.packets) > Len(self.packets) THEN <<hb>> ELSE <<>>)
                \o HeaderBytes(after, hb, Tail(bytes))

(* C5: no partial emission.  Every ItmData or DwtData packet completed so   *)
(* far, returned by pull or still queued, has a payload of exactly the      *)
(* length the low 2 bits of its header byte encode (1, 2, 4 for 0b01, 0b10, *)
(* 0b11), and every Extension or Reserved packet has at most 5 data bytes,  *)
(* the header byte included.                                                *)
C5_NoPartialEmission ==
    LET hs == HeaderBytes(new, 0, Consumed) IN
    /\ Len(hs) = Len(Emitted)
    /\ \A i \in 1..Len(Emitted) :
            LET p == Emitted[i] IN
            /\ p.tag \in {"ItmData", "DwtData"} =>
                    Len(p.payload) = SizeOfCode(hs[i] % 4)
            /\ p.tag \in {"Extension", "Reserved"} =>
                    (Len(p.data) <= 5 /\ p.data[1] = hs[i])
    /\ (op = "pull" /\ ret # None) => ret = Emitted[Len(pulled)]

\* packets of 4, 2, 5 and 2 bytes returned by pull
C5_Witness ==
    /\ tape = MixedTape
    /\ AllFed /\ PulledNone
    /\ pulled = <<ItmData(0, <<65, 0, 0, 0>>), DwtData(0, <<128, 0>>),
                  Reserved(<<132, 128, 129, 130, 131>>), Extension(<<8, 2>>)>>

-----------------------------------------------------------------------------
(* C6: every pull leaves the input queue empty; it returns the oldest       *)
(* completed packet, one per call, the packets completed by this call       *)
(* queued behind those that were waiting; a pull that finds no pending      *)
(* byte leaves the decode state and the waiting packets as they were.       *)
C6_PullDrainsThenPops ==
    [][op' = "pull" =>
        LET done == SubSeq(pulled' \o packets', Len(pulled) + 1,
                           Len(pulled') + Len(packets'))
        IN  /\ incoming' = <<>>
            /\ IsPrefix(packets, done)
            /\ IF done = <<>>
               THEN ret' = None /\ pulled' = pulled /\ packets' = <<>>
               ELSE /\ ret' = Head(done)
                    /\ pulled' = Append(pulled, Head(done))
                    /\ packets' = Tail(done)
            /\ incoming = <<>> => (state' = state /\ done = packets)
    ]_vars

\* a later pull, with nothing new fed, that returned the third packet of the
\* first capture while others wait
C6_Witness ==
    /\ tape = Capture1
    /\ op = "pull" /\ incoming = <<>>
    /\ Len(pulled) = 3 /\ ret = pulled[3]
    /\ Len(packets) = 7

-----------------------------------------------------------------------------
(* C7: feed only appends its bytes, in order, to the end of the pending     *)
(* input queue: the decode state, the packet queue and what pull has        *)
(* returned are as before the call.                                         *)
C7_FeedOnlyAppends ==
    [][op' = "feed" =>
        /\ pos' >= pos
        /\ incoming' = incoming \o SubSeq(tape, pos + 1, pos')
        /\ state' = state
        /\ packets' = packets
        /\ ret' = ret /\ pulled' = pulled
    ]_vars

\* a feed on top of pending bytes, in the middle of a packet, with a packet
\* queued
C7_Witness ==
    /\ op = "feed"
    /\ Len(incoming) > MaxChunk
    /\ state # Header
    /\ packets # <<>>

-----------------------------------------------------------------------------
(* C8: idempotent draining.  With the input queue and the output queue      *)
(* both empty, a pull returns none and leaves the input queue, the output   *)
(* queue and the decode state unchanged.                                    *)
C8_IdempotentDraining ==
    [][(incoming = <<>> /\ packets = <<>> /\ op' = "pull") =>
        /\ ret' = None
        /\ incoming' = <<>> /\ packets' = <<>>
        /\ state' = state
        /\ pulled' = pulled
    ]_vars

\* a pull that returned none after packets were drained, a partial packet
\* still being decoded
C8_Witness ==
    /\ PulledNone
    /\ incoming = <<>> /\ packets = <<>>
    /\ pulled # <<>>
    /\ state # Header

-----------------------------------------------------------------------------
(* C9: Overflow passthrough.  Each 0x70 consumed in the Header state emits  *)
(* exactly one Overflow packet and leaves the state Header: n bytes 0x70    *)
(* give n Overflow packets and nothing else.                                *)
C9_OverflowPassthrough ==
    /\ state = Header =>
            LET after == process_byte(Self, 112) IN
            /\ after.packets = Append(packets, Overflow)
            /\ after.state = Header
    /\ tape \in OverflowTapes =>
            /\ Emitted = Rep(Overflow, Len(Consumed))
            /\ incoming = <<>> => state = Header
            /\ (AllFed /\ PulledNone) => pulled = Rep(Overflow, Len(tape))

\* [0x70, 0x70] fed, two Overflow packets returned, then none
C9_Witness ==
    /\ tape = <<112, 112>>
    /\ AllFed /\ PulledNone
    /\ pulled = <<Overflow, Overflow>>

-----------------------------------------------------------------------------
\* a stream of one packet: nothing is emitted and the decoder is in a partial
\* state while bytes are missing, the packet is emitted by its last byte
C10_WaitsForLastByte ==
    tape \in PacketTapes =>
        \A e \in PacketEncodings :
            tape = e.bytes =>
                /\ Len(Consumed) < Len(e.bytes) =>
                        /\ Emitted = <<>>
                        /\ Len(Consumed) > 0 => state # Header
                /\ Len(Consumed) = Len(e.bytes) =>
                        (Emitted = <<e.pkt>> /\ state = Header)

\* the second capture ends in the middle of a long-form timestamp
C10_Capture2Waits ==
    (tape = Capture2 /\ AllFed /\ incoming = <<>>) =>
        /\ state = StTimeStamp(3, <<69>>)
        /\ Emitted = Expected(Capture2)

(* C10: an incomplete packet waits for more bytes.  While the bytes fed end *)
(* in the middle of a packet no packet is emitted for it, a pull that finds *)
(* no pending byte keeps the partial decode state (and returns none when    *)
(* no earlier packet is queued), and the packet is emitted once a later     *)
(* feed has supplied its last byte.                                         *)
C10_IncompleteWaits ==
    /\ [](C10_WaitsForLastByte /\ C10_Capture2Waits)
    /\ [][(incoming = <<>> /\ state # Header /\ op' = "pull") =>
            /\ state' = state
            /\ packets = <<>> => (ret' = None /\ pulled' = pulled)
       ]_vars

\* a DwtData of 4 bytes with 2 payload bytes consumed: pull returned none
C10_Witness ==
    /\ tape = <<143, 226, 239, 127, 91>>
    /\ pos = 3
    /\ PulledNone
    /\ state = StDwtData(17, <<226, 239>>, 4)

-----------------------------------------------------------------------------
\* C11 as the claim states it: a run of n zeros and 0x80 emit Sync if and
\* only if n = 5, and leave the decoder in Header
C11_AsStated ==
    (tape \in RunTapes /\ Consumed = tape) =>
        /\ Emitted = IF Len(tape) - 1 = 5 THEN <<Sync>> ELSE <<>>
        /\ state = Header

(* C11: from the Header state, a run of n >= 1 bytes 0x00 followed by 0x80  *)
(* emits a Sync packet if and only if n mod 8 = 5 (n = 5, 13, 21, ...): the *)
(* eighth zero of a run ends the sync attempt and the next zero starts a    *)
(* new one.  Nothing is emitted before the 0x80, and the decoder is in the  *)
(* Header state after it.                                                   *)
C11_SyncRuns ==
    tape \in RunTapes =>
        /\ Len(Consumed) < Len(tape) => Emitted = <<>>
        /\ Consumed = tape =>
                /\ Emitted = IF (Len(tape) - 1) % 8 = 5 THEN <<Sync>> ELSE <<>>
                /\ state = Header

\* five zeros and 0x80 consumed, Sync returned, then none
C11_Witness ==
    /\ tape = <<0, 0, 0, 0, 0, 128>>
    /\ AllFed /\ PulledNone
    /\ pulled = <<Sync>>
    /\ state = Header

-----------------------------------------------------------------------------
\* a source packet header: not Overflow, low nibble none of 0x0, 0x4, 0x8, 0xC
IsSourceHeader(b) == b # 112 /\ b % 16 \notin {0, 4, 8, 12}

\* the packet of a source header b and its payload
SourcePacket(b, payload) ==
    [tag |-> IF (b \div 4) % 2 = 1 THEN "DwtData" ELSE "ItmData",
     id |-> b \div 8, payload |-> payload]

(* C12: source-packet dispatch.  A stream that starts with a source header  *)
(* b (not 0x70, low nibble not 0x0, 0x4, 0x8, 0xC): the 1, 2 or 4 bytes     *)
(* after b, whatever their values, are consumed as payload without any      *)
(* packet being emitted, and the last of them emits one packet, DwtData     *)
(* when bit 2 of b is set and ItmData otherwise, with id = b >> 3 and the   *)
(* payload bytes in arrival order; the decoder is then in Header.           *)
C12_SourceDispatch ==
    (tape # <<>> /\ IsSourceHeader(tape[1]) /\ Len(tape) > SizeOfCode(tape[1] % 4)) =>
        LET b == tape[1]
            size == SizeOfCode(b % 4)
            pkt == SourcePacket(b, SubSeq(tape, 2, size + 1))
        IN  /\ Len(Consumed) <= size => Emitted = <<>>
            /\ (1 <= Len(Consumed) /\ Len(Consumed) <= size) =>
                    (state # Header /\ state.tag = pkt.tag)
            /\ Len(Consumed) = size + 1 => (Emitted = <<pkt>> /\ state = Header)
            /\ Len(Consumed) > size => Emitted[1] = pkt

\* header 0x8F, then 255, 3, 193, 8 as payload and an Overflow byte
C12_Witness ==
    /\ tape = <<143, 255, 3, 193, 8, 112>>
    /\ AllFed /\ PulledNone
    /\ pulled = <<DwtData(17, <<255, 3, 193, 8>>), Overflow>>

-----------------------------------------------------------------------------
(* Natural numbers of any size, as base-128 digits, least significant       *)
(* first: two digit sequences are the same number when they agree up to     *)
(* trailing zeros.                                                          *)
RECURSIVE StripZeros(_)
StripZeros(d) ==
    IF d = <<>> THEN <<>>
    ELSE IF d[Len(d)] = 0 THEN StripZeros(SubSeq(d, 1, Len(d) - 1))
    ELSE d

\* the sum of g[i] * 128^(i-1) equals the usize v, nothing lost
SameNumber(g, v) == StripZeros(g) = StripZeros(v)

\* the sum of g[i] * 128^(i-1) modulo 2^64, as a usize: nine whole groups
\* (63 bits) and the lowest bit of the tenth
Mod2p64(g) ==
    [i \in 1..10 |->
        IF i > Len(g) THEN 0 ELSE IF i = 10 THEN g[i] % 2 ELSE g[i]]

-----------------------------------------------------------------------------
\* where the Extension or Reserved packet that starts a stream ends: after
\* the j-th byte behind the header, the first with bit 7 clear, or the 4th
\* (5 bytes with the header); empty while the stream holds no such byte
ExtEnd(t) ==
    {j \in 1..4 :
        /\ j + 1 <= Len(t)
        /\ (t[j + 1] < 128 \/ j = 4)
        /\ \A i \in 1..(j - 1) : t[i + 1] >= 128}

\* the name of the packet kind of an Extension or Reserved header
ExtKind(b) == IF b % 16 = 8 THEN "Extension" ELSE "Reserved"

(* C14: Extension/Reserved continuation rule.  After a header with low      *)
(* nibble 0x8 (Extension) or 0x4 (Reserved) each following byte is appended *)
(* to the packet data; the packet is emitted, header first and bytes in     *)
(* arrival order, by the first appended byte with bit 7 clear or by the     *)
(* byte that brings the data to 5 bytes, whichever comes first, and the     *)
(* decoder is then in Header.                                               *)
C14_ContinuationRule ==
    (tape # <<>> /\ tape[1] % 16 \in {4, 8}) =>
        LET kind == ExtKind(tape[1])
            partial == [tag |-> kind, data |-> Consumed]
        IN  /\ ExtEnd(tape) = {} =>
                    /\ Emitted = <<>>
                    /\ Len(Consumed) >= 1 => state = partial
            /\ \A j \in ExtEnd(tape) :
                    LET pkt == [tag |-> kind, data |-> SubSeq(tape, 1, j + 1)] IN
                    /\ Len(Consumed) <= j => Emitted = <<>>
                    /\ (1 <= Len(Consumed) /\ Len(Consumed) <= j) => state = partial
                    /\ Len(Consumed) = j + 1 => (Emitted = <<pkt>> /\ state = Header)
                    /\ Len(Consumed) > j => Emitted[1] = pkt

\* an Extension packet cut at 5 bytes while the continuation bit is still
\* set, then an Overflow
C14_Witness ==
    /\ tape = <<136, 128, 129, 130, 131, 112>>
    /\ AllFed /\ PulledNone
    /\ pulled = <<Extension(<<136, 128, 129, 130, 131>>), Overflow>>

-----------------------------------------------------------------------------
(* one byte through the decoder: a pull that finds exactly one byte buffered *)

\* the step is a pull with one byte in the input buffer
ByteStep == op' = "pull" /\ Len(incoming) = 1

\* the byte that step consumes
StepByte == incoming[1]

\* the packets that step appended to the output queue
StepPackets ==
    SubSeq(pulled' \o packets', Len(Emitted) + 1, Len(pulled') + Len(packets'))

\* the tags of DecoderState
StateTags ==
    {"Header", "Syncing", "ItmData", "DwtData", "Extension", "Reserved", "TimeStamp"}

\* the tags of TracePacket
PacketTags ==
    {"Sync", "Overflow", "TimeStamp", "ItmData", "DwtData", "Extension", "Reserved"}

\* the invalid sequences: byte b arriving in decode state st
Malformed(st, b) ==
    \/ st.tag = "Syncing" /\ b = 128 /\ st.amount # 5
    \/ st.tag = "Syncing" /\ b \notin {0, 128}
    \/ st.tag = "Syncing" /\ b = 0 /\ st.amount > 6
    \/ st = Header /\ b % 16 = 0 /\ b \div 64 = 2
    \/ st = Header /\ b % 16 = 12

(* C15: malformed input is never fatal.  For every decode state and every   *)
(* byte 0..255 the transition is defined: the byte is consumed, the state   *)
(* is a decode state, pull returns a packet or None, and the packets        *)
(* already emitted are unchanged.  In each malformed case (0x80 in Syncing  *)
(* with count # 5, a byte other than 0x00/0x80 in Syncing, 0x00 in Syncing  *)
(* with count > 6, a header with low nibble 0 and top bits 10, a header     *)
(* with low nibble 0xC) no packet is appended and the state becomes Header. *)
C15_NeverFatal ==
    [][ByteStep =>
            /\ incoming' = <<>>
            /\ state'.tag \in StateTags
            /\ ret'.tag \in PacketTags \cup {"None"}
            /\ IsPrefix(Emitted, pulled' \o packets')
            /\ Malformed(state, StepByte) =>
                    (StepPackets = <<>> /\ state' = Header)]_vars

\* two zeros and 0x80, a sync marker that is too short: nothing comes out
C15_Witness ==
    /\ tape = <<0, 0, 128>>
    /\ pos = 3 /\ incoming = <<>> /\ PulledNone
    /\ Emitted = <<>>
    /\ state = Header

(* C16: decode-state lifecycle.  The state of a new decoder is Header, and  *)
(* after each consumed byte the state is Header if and only if the byte     *)
(* completed a packet (one was appended to the output queue) or was an      *)
(* invalid sequence; otherwise it is a non-Header partial-decode state.     *)
C16_Lifecycle ==
    /\ [](op = "new" => state = Header)
    /\ [][ByteStep =>
            /\ state' = Header <=>
                    (StepPackets # <<>> \/ Malformed(state, StepByte))
            /\ state' # Header =>
                    state'.tag \in StateTags \ {"Header"}]_vars

\* 0x01 opens a 1-byte ITM packet, 0xFF completes it: back in Header
C16_Witness ==
    /\ tape = <<1, 255, 3, 193, 8, 112>>
    /\ pos = 2 /\ incoming = <<>> /\ op = "pull"
    /\ Emitted = <<ItmData(0, <<255>>)>>
    /\ state = Header

-----------------------------------------------------------------------------
\* a header of the short form: low nibble 0 and bit 7 clear
IsShortForm(b) == b % 16 = 0 /\ b < 128

(* C18: the "invalid short timestamp" branch is unreachable.  Of the header *)
(* bytes with low nibble 0 and bit 7 clear, 0x00 starts a sync marker and   *)
(* 0x70 emits Overflow; each of the others has a value field (b >> 4) & 7   *)
(* in 1..6 and emits TimeStamp with counter_delay 0 and that timestamp, so  *)
(* none is dropped as invalid, and every TimeStamp packet emitted by a      *)
(* header byte alone has counter_delay 0 and timestamp in 1..6.             *)
C18_ShortTimestamp ==
    [][(ByteStep /\ state = Header) =>
            /\ IsShortForm(StepByte) =>
                    CASE StepByte = 0 ->
                            StepPackets = <<>> /\ state' = Syncing(1)
                      [] StepByte = 112 ->
                            StepPackets = <<Overflow>> /\ state' = Header
                      [] OTHER ->
                            /\ StepByte \div 16 \in 1..6
                            /\ StepPackets = <<TimeStamp(0, Usize(StepByte \div 16))>>
                            /\ state' = Header
            /\ \A i \in 1..Len(StepPackets) :
                    StepPackets[i].tag = "TimeStamp" =>
                        /\ IsShortForm(StepByte)
                        /\ StepPackets[i].tc = 0
                        /\ \E v \in 1..6 : StepPackets[i].ts = Usize(v)]_vars

\* 0x10 alone is the timestamp 1
C18_Witness ==
    /\ tape = <<16, 0, 128, 112, 0, 112>>
    /\ pos = 1 /\ incoming = <<>> /\ op = "pull"
    /\ Emitted = <<TimeStamp(0, Usize(1))>>
    /\ state = Header

-----------------------------------------------------------------------------
(* C19: every emitted Extension or Reserved packet has at least 2 and at    *)
(* most 5 bytes.  Bit 7 of the header byte is not examined: the byte after  *)
(* an Extension/Reserved header is consumed into that packet also when the  *)
(* header has bit 7 clear, and no 1-byte packet is emitted.                 *)
C19_ExtensionLength ==
    /\ \A i \in 1..Len(Emitted) :
            Emitted[i].tag \in {"Extension", "Reserved"} =>
                (2 <= Len(Emitted[i].data) /\ Len(Emitted[i].data) <= 5)
    /\ (tape # <<>> /\ tape[1] \in ExtHeaders /\ tape[1] < 128) =>
            /\ Len(Consumed) <= 1 => Emitted = <<>>
            /\ Len(Consumed) = 1 => state = [tag |-> ExtKind(tape[1]), data |-> <<tape[1]>>]
            /\ Emitted # <<>> =>
                    /\ Emitted[1].tag = ExtKind(tape[1])
                    /\ SubSeq(Emitted[1].data, 1, 2) = SubSeq(tape, 1, 2)

\* the header 0x04 has bit 7 clear and still takes the next byte
C19_Witness ==
    /\ tape = <<4, 2, 112>>
    /\ AllFed /\ PulledNone
    /\ pulled = <<Reserved(<<4, 2>>), Overflow>>

-----------------------------------------------------------------------------
(* C17: the long-form timestamp accepts any number of continuation bytes    *)
(* and its value is of unbounded width.  While the continuation bit is set  *)
(* the decoder stays in TimeStamp and keeps every group, and for every k a  *)
(* timestamp of k 7-bit groups is emitted with the exact value sum of       *)
(* g_i * 128^i, no high-order group truncated or wrapped, in particular     *)
(* for k >= 10 where the value needs more than 64 bits.                     *)
C17_AsStated ==
    tape \in TsTapes =>
        \A c \in TsCases :
            tape = c.bytes =>
                /\ (1 <= Len(Consumed) /\ Len(Consumed) < Len(tape)) =>
                        /\ Emitted = <<>>
                        /\ state.tag = "TimeStamp"
                        /\ Len(state.ts) = Len(Consumed) - 1
                /\ Consumed = tape =>
                        /\ Len(Emitted) = 1
                        /\ Emitted[1].tag = "TimeStamp"
                        /\ \A i \in 1..Len(c.g) :
                                c.g[i] # 0 =>
                                    /\ i <= Len(Emitted[1].ts)
                                    /\ Emitted[1].ts[i] = c.g[i]

-----------------------------------------------------------------------------
\* a decode state that holds what its kind allows
WellFormed(st) ==
    CASE st.tag = "Header" -> TRUE
      [] st.tag = "Syncing" -> 1 <= st.amount /\ st.amount <= 7
      [] st.tag \in {"ItmData", "DwtData"} ->
            /\ st.size \in {1, 2, 4}
            /\ st.id \in 0..31
            /\ Len(st.payload) < st.size
            /\ \A i \in 1..Len(st.payload) : st.payload[i] \in Bytes
      [] st.tag \in {"Extension", "Reserved"} ->
            /\ 1 <= Len(st.data) /\ Len(st.data) <= 4
            /\ st.data[1] % 16 = (IF st.tag = "Extension" THEN 8 ELSE 4)
      [] st.tag = "TimeStamp" ->
            /\ st.tc \in 0..3
            /\ \A i \in 1..Len(st.ts) : st.ts[i] \in 0..127
      [] OTHER -> FALSE

(* C20: in every reachable decoder state the partial-decode state is        *)
(* well-formed: Syncing(count) has 1 <= count <= 7; ItmData/DwtData have    *)
(* size in {1, 2, 4}, id in 0..31 and fewer payload bytes than size;        *)
(* Extension/Reserved hold 1 to 4 bytes, the first being the header (low    *)
(* nibble 0x8 resp. 0x4); TimeStamp has counter_delay in 0..3 and every     *)
(* accumulated group in 0..127.                                             *)
C20_WellFormedState == WellFormed(state)

\* seven zeros counted, the most a sync marker in progress can hold
C20_Witness ==
    /\ state = Syncing(7)
    /\ Len(Consumed) = 7
    /\ Emitted = <<>>

====
